---------------------------- MODULE Spec2Model ----------------------------
(***************************************************************************)
(* BreachShield breach-detection-to-notification pipeline.                 *)
(*                                                                         *)
(* The model covers the Celery tasks of backend/workers/scan_tasks.py      *)
(* (scan_all_monitored_emails, process_single_email, dispatch_alerts),     *)
(* the remediation cache of backend/remediation/llm_advisor.py, the        *)
(* severity engine and the relational store of backend/database/models.py. *)
(* Every worker process owns one SQLAlchemy session: rows it has flushed   *)
(* but not committed live in the worker's record (pend), committed rows    *)
(* live in the table variables.                                            *)
(***************************************************************************)
EXTENDS Integers, Sequences, FiniteSets, Bags, TLC

VARIABLES
    mails,        \* committed monitored_emails rows, by id
    events,       \* committed breach_events rows
    cache,        \* committed remediation_cache rows
    nextCacheId,  \* the id the next remediation_cache row gets
    alert_logs,   \* committed alert_logs rows
    queue,        \* broker: bag of task messages not yet consumed
    wk,           \* per worker process: position, task message, session, locals
    results,      \* how every finished task execution ended (history)
    done,         \* history: mails of which a scan has run to its return
    nextEventId,  \* breach_events.id sequence
    nextLogId,    \* alert_logs.id sequence
    budget,       \* what the environment may still do: beat ticks, resends, faults
    skipped,      \* history: identities of which a scan returned at its guard
    counted,      \* history: ids of the events created by scans whose scan_count increment is committed
    keyIn,        \* pure-function harness: the arguments of the last call
    keyOut,       \* pure-function harness: its result
    sevIn,        \* calculate_severity: the category list of the last call
    sevOut,       \* calculate_severity: its SeverityResult
    smsIn,        \* build_sms_message: breach_name, severity, email_preview
    smsOut,       \* build_sms_message: the message, or the failed assertion
    now,          \* time.time(), in tenths of a second
    client,       \* per worker process: the HIBPClient of its running scan
    requests,     \* history: the times at which a request reached the breach feed
    digest,       \* send_weekly_summaries: position, users still to do, locals
    summaries,    \* history: the weekly summaries handed to the email provider
    route         \* the API request being served: position and locals

vars == << mails, events, cache, alert_logs, queue, wk, results, done, skipped,
           nextEventId, nextLogId, budget, counted,
           keyIn, keyOut, sevIn, sevOut, smsIn, smsOut, now, client, requests,
           digest, summaries, nextCacheId, route >>

-----------------------------------------------------------------------------
(* Bounds of the model *)

MaxSweeps == 1
MaxResends == 1
MaxFaults == 1
RerunSweeps == 2
MaxLen == 3
MaxCats == 5
MaxNameLen == 48
MaxPreviewLen == 64
MaxFeedFaults == 1
MaxStops == 1
MaxTicks == 1
MaxDigests == 1
MaxWeeks == 1
MaxDrops == 1
MaxDeletes == 1
MaxRegens == 1
MaxAdds == 1
MaxPartial == 1
MaxAdviceFaults == 2
Epoch == 1000

(* Program constants *)

ScanMaxRetries == 3
DispatchMaxRetries == 2
DefaultWeight == 2
ScoreCap == 100
RateLimit == 16
Cooldown == 50
Week == 6048000

Workers == {"w1", "w2"}
MailIds == {1, 2}

(* The accounts: the owner of each identity (the user_id of its row), one  *)
(* account that monitors nothing.  get_current_user answers the same       *)
(* account for every request of the API.                                   *)
Owner(m) == IF m = 2 THEN 2 ELSE 1
CurrentUser == 1
NoPhone == "None"
NoTime == 0
Fallback == "Please change your password for this service immediately and enable two-factor authentication."

(* response.content[0].text: the collaborator words every answer anew; the  *)
(* answer to a call is named by the worker process that made it.           *)
GeneratedText(w) == IF w = "w1" THEN "advice given to w1" ELSE "advice given to w2"

(* datetime.utcnow() for a column: later than the time the column holds *)
utcnow(held) == held + 1

-----------------------------------------------------------------------------
(* Strings: Python compares str by code point.  The data classes and the   *)
(* breach names of the model, in code point order.                         *)

ClassOrder == << "Device information", "Email addresses", "Names", "Passwords" >>
Classes == {ClassOrder[k] : k \in 1..Len(ClassOrder)}
Names == {"Adobe", "Canva"}

Rank(c) == CHOOSE k \in 1..Len(ClassOrder) : ClassOrder[k] = c

StrLess(a, b) == Rank(a) < Rank(b)

(* sorted(xs): insertion of each element into an already sorted prefix *)
RECURSIVE InsertSorted(_, _)
InsertSorted(x, s) ==
    IF s = << >> THEN << x >>
    ELSE IF StrLess(Head(s), x) \/ Head(s) = x
         THEN << Head(s) >> \o InsertSorted(x, Tail(s))
         ELSE << x >> \o s

(* sorted() left out: the classes in the order given *)
Unsorted(xs) == xs

RECURSIVE Sorted(_)
Sorted(xs) ==
    IF xs = << >> THEN << >>
    ELSE InsertSorted(xs[Len(xs)], Sorted(SubSeq(xs, 1, Len(xs) - 1)))

(* ",".join(xs) as the sequence of its pieces *)
RECURSIVE Join(_)
Join(xs) ==
    IF xs = << >> THEN << >>
    ELSE IF Len(xs) = 1 THEN xs
    ELSE << Head(xs), "," >> \o Join(Tail(xs))

(* hashlib.sha256(raw).hexdigest(): one digest per raw key (SHA-256 is      *)
(* taken to be collision free), so the digest is named by the raw key.     *)
Sha256(raw) == [sha256 |-> raw]

BuildCacheKey(breach_name, data_classes) ==
    Sha256(<< breach_name, "|" >> \o Join(Sorted(data_classes)))

-----------------------------------------------------------------------------
(* Severity engine (backend/scoring/severity_engine.py) *)

DATA_CLASS_WEIGHTS ==
    ("Passwords" :> 25) @@ ("Password hints" :> 20) @@ ("Auth tokens" :> 20) @@
    ("Credit cards" :> 25) @@ ("Bank account numbers" :> 25) @@
    ("Social security numbers" :> 25) @@ ("Passport numbers" :> 20) @@
    ("Government issued IDs" :> 20) @@ ("Private messages" :> 15) @@
    ("Security questions and answers" :> 18) @@ ("Biometric data" :> 22) @@
    ("Health insurance information" :> 18) @@ ("Medical records" :> 20) @@
    ("Financial transactions" :> 18) @@ ("Purchases" :> 10) @@
    ("Phone numbers" :> 8) @@ ("Physical addresses" :> 8) @@
    ("Dates of birth" :> 7) @@ ("Genders" :> 3) @@
    ("Geographic locations" :> 5) @@ ("Ethnicities" :> 5) @@
    ("Email addresses" :> 5) @@ ("Usernames" :> 4) @@ ("Names" :> 3) @@
    ("IP addresses" :> 4) @@ ("Device information" :> 3) @@
    ("Browser user agent details" :> 2) @@ ("Avatars" :> 1) @@
    ("Website activity" :> 3)

(* every band one point higher *)
ShiftedThresholds == [CRITICAL |-> 26, HIGH |-> 13, MEDIUM |-> 7, LOW |-> 0]

SEVERITY_THRESHOLDS == [CRITICAL |-> 25, HIGH |-> 12, MEDIUM |-> 6, LOW |-> 0]

critical_types == {"Passwords", "Credit cards", "Bank account numbers",
                   "Social security numbers", "Auth tokens", "Biometric data"}

is_critical_breach(data_classes) ==
    \E k \in 1..Len(data_classes) : data_classes[k] \in critical_types

Weight(c) ==
    IF c \in DOMAIN DATA_CLASS_WEIGHTS THEN DATA_CLASS_WEIGHTS[c] ELSE DefaultWeight

RECURSIVE RawScore(_)
RawScore(data_classes) ==
    IF data_classes = << >> THEN 0
    ELSE Weight(Head(data_classes)) + RawScore(Tail(data_classes))

(* no cap at all: the raw sum *)
Uncapped(a, b) == a

Min(a, b) == IF a < b THEN a ELSE b
Max(a, b) == IF a > b THEN a ELSE b

(* matched_classes: the recognized classes in the order given *)
Matched(data_classes) ==
    LET Known(c) == c \in DOMAIN DATA_CLASS_WEIGHTS
    IN  SelectSeq(data_classes, Known)

(* top_risk: the first class whose weight is above all weights before it   *)
(* and is not exceeded later                                               *)
TopRisk(data_classes) ==
    LET best == CHOOSE k \in 1..Len(data_classes) :
                  /\ \A j \in 1..Len(data_classes) :
                        Weight(data_classes[j]) <= Weight(data_classes[k])
                  /\ \A j \in 1..(k - 1) :
                        Weight(data_classes[j]) < Weight(data_classes[k])
    IN  data_classes[best]

SeverityResult(label, score, data_classes) ==
    [label |-> label, score |-> score,
     matched_classes |-> Matched(data_classes), top_risk |-> TopRisk(data_classes)]

calculate_severity(data_classes) ==
    IF data_classes = << >>
    THEN [label |-> "LOW", score |-> 0, matched_classes |-> << >>, top_risk |-> "None"]
    ELSE LET score == Min(RawScore(data_classes), ScoreCap)
         IN  IF is_critical_breach(data_classes) \/ score >= SEVERITY_THRESHOLDS.CRITICAL
             THEN SeverityResult("CRITICAL", Max(score, SEVERITY_THRESHOLDS.CRITICAL),
                                 data_classes)
             ELSE IF score >= SEVERITY_THRESHOLDS.HIGH
             THEN SeverityResult("HIGH", score, data_classes)
             ELSE IF score >= SEVERITY_THRESHOLDS.MEDIUM
             THEN SeverityResult("MEDIUM", score, data_classes)
             ELSE SeverityResult("LOW", score, data_classes)

-----------------------------------------------------------------------------
(* SMS body (backend/alerts/sms_alert.py) *)

SmsLimit == 160

(* s[:k] of Python: the first k characters, for k < 0 all but the last -k *)
Prefix(s, k) ==
    IF k >= 0 THEN SubSeq(s, 1, Min(k, Len(s)))
    ELSE SubSeq(s, 1, Max(0, Len(s) + k))

(* base_structure.format(name): the text around the breach name *)
SmsBody(name, severity, email_preview) ==
    "[BreachShield] " \o severity \o " ALERT: " \o email_preview
        \o " found in " \o name
        \o " breach. Change your password NOW. Reply STOP to unsubscribe."

(* the message, and whether the assert on its length lets it through *)
build_sms_message(breach_name, severity, email_preview) ==
    LET available_length == SmsLimit - Len(SmsBody("", severity, email_preview))
        message ==
            IF Len(breach_name) > available_length
            THEN SmsBody(Prefix(breach_name, available_length - 3) \o "...",
                         severity, email_preview)
            ELSE SmsBody(breach_name, severity, email_preview)
    IN  [message |-> message, raised |-> Len(message) > SmsLimit]

(* the call of scripts/smoke_test.py *)
FirstSms == << "LinkedIn", "CRITICAL", "joh***@gmail.com" >>

-----------------------------------------------------------------------------
(* The breach feed: what HIBP holds for each monitored address.  It does   *)
(* not change during a run.  Mail 1 is in two breaches, mail 2 in one of   *)
(* them, reported with its data classes in another order.                  *)

Feed ==
    [m \in MailIds |->
        IF m = 1
        THEN << [Name |-> "Adobe", DataClasses |-> << "Passwords", "Email addresses" >>],
                [Name |-> "Canva", DataClasses |-> << "Names", "Device information" >>] >>
        ELSE << [Name |-> "Canva", DataClasses |-> << "Device information", "Names" >>] >>]

normalize_breach(raw_breach) ==
    [name |-> raw_breach.Name, data_classes |-> raw_breach.DataClasses]

-----------------------------------------------------------------------------
(* Task messages and worker records *)

Msg(task, arg, retries) == [task |-> task, arg |-> arg, retries |-> retries]
NoJob == Msg("none", 0, 0)

MaxRetriesOf(task) ==
    IF task = "dispatch" THEN DispatchMaxRetries ELSE ScanMaxRetries

Idle ==
    [pc |-> "idle", job |-> NoJob, brs |-> << >>, i |-> 0, count |-> 0,
     snap |-> 0, expired |-> FALSE, pend |-> {}, created |-> {},
     text |-> "", hit |-> 0, rid |-> 0, dead |-> FALSE]

Enqueue(q, msg) == q (+) SetToBag({msg})

Waiting(task) == {j \in BagToSet(queue) : j.task = task}

store == << mails, events, cache, alert_logs, nextEventId, nextLogId,
           nextCacheId >>
hist == << results, done, counted, skipped >>
calls == << keyIn, keyOut, sevIn, sevOut, smsIn, smsOut >>
feedside == << now, client, requests >>
weekly == << digest, summaries >>
harness == << calls, feedside, weekly, route >>

(* no API request being served *)
NoRoute == [pc |-> "idle", arg |-> 0, rid |-> 0, hit |-> 0, text |-> "",
            dead |-> FALSE]

(* send_weekly_summaries not running *)
NoDigest == [pc |-> "idle", todo |-> << >>, since |-> 0, notified |-> 0,
             status |-> "none"]

(* HIBPClient(): _last_request_time = 0.0; wake is the time its sleep      *)
(* ends, tries the requests it has sent, status the last answer            *)
NewClient == [last |-> 0, wake |-> 0, tries |-> 0, status |-> 0]

(* the store with the identities ids monitored and nothing found yet *)
InitWith(ids) ==
    /\ mails = [m \in ids |->
                  [is_active |-> TRUE, scan_count |-> 0, last_scanned_at |-> NoTime]]
    /\ events = {}
    /\ cache = {}
    /\ alert_logs = {}
    /\ queue = EmptyBag
    /\ wk = [w \in Workers |-> Idle]
    /\ results = {}
    /\ done = {}
    /\ skipped = {}
    /\ counted = {}
    /\ nextEventId = 1
    /\ nextLogId = 1
    /\ keyIn = << >>
    /\ keyOut = << >>
    /\ sevIn = << >>
    /\ sevOut = calculate_severity(<< >>)
    /\ smsIn = FirstSms
    /\ smsOut = build_sms_message(FirstSms[1], FirstSms[2], FirstSms[3])
    /\ now = Epoch
    /\ client = [w \in Workers |-> NewClient]
    /\ requests = << >>
    /\ digest = NoDigest
    /\ nextCacheId = 1
    /\ route = NoRoute
    /\ summaries = {}

InitStore == InitWith(MailIds)

(* What the environment may still do: beat ticks of the sweep, manual      *)
(* resends, failures of a collaborator in the pipeline, failing answers of *)
(* the feed, deactivations, clock ticks, beat ticks of the weekly digest,  *)
(* weeks passing, failures during the digest or a request, deletions of a  *)
(* delivery record, regenerations of an advice and additions of an         *)
(* identity through the API, and sweeps that fail after they have sent     *)
(* some of their scans.  An environment that does nothing:                 *)
Nothing ==
    [sweeps |-> 0, resends |-> 0, faults |-> 0, feed |-> 0, stops |-> 0,
     ticks |-> 0, digests |-> 0, weeks |-> 0, drops |-> 0, deletes |-> 0,
     regens |-> 0, adds |-> 0, partial |-> 0]

Init ==
    /\ InitStore
    /\ budget = [Nothing EXCEPT !.sweeps = MaxSweeps, !.resends = MaxResends,
                                !.faults = MaxFaults, !.partial = MaxPartial]

-----------------------------------------------------------------------------
(* Helpers over the store and the session *)

Job(w) == wk[w].job

(* rows a query of worker w sees: the committed ones and those of its own   *)
(* open transaction                                                        *)
Visible(w) == events \cup wk[w].pend

HasEvent(rows, mail, name) ==
    \E ev \in rows : ev.monitored_email_id = mail /\ ev.breach_name = name

(* a lookup that finds nothing *)
NoCacheRow(key) == {}

CacheRow(key) == {r \in cache : r.cache_key = key}

Outcome(job, how) == [task |-> job.task, outcome |-> how]

(* celery Task.retry(exc=e): below max_retries the message is sent again   *)
(* with retries + 1 and Retry is raised; at max_retries exc is raised.     *)
(* Neither is caught by "except self.MaxRetriesExceededError".             *)
RetryRaises(job) ==
    IF job.retries < MaxRetriesOf(job.task) THEN "Retry" ELSE "exc"

(* a retry that is sent again whatever the count *)
AlwaysResends(job) == TRUE

RetryResends(job) == job.retries < MaxRetriesOf(job.task)

AfterRetry(q, job) ==
    IF RetryResends(job)
    THEN Enqueue(q, Msg(job.task, job.arg, job.retries + 1))
    ELSE q

(* the task returns its dict *)
Returned(w, job) ==
    /\ results' = results \cup {Outcome(job, "returned")}
    /\ wk' = [wk EXCEPT ![w] = Idle]

(* the except branch of a task: rollback of the session, then self.retry,  *)
(* with q the broker after what the task has done so far                   *)
Failed(w, job, q) ==
    /\ queue' = AfterRetry(q, job)
    /\ results' = results \cup {Outcome(job, RetryRaises(job))}
    /\ wk' = [wk EXCEPT ![w] = Idle]

(* A statement that talks to a collaborator (store, feed, text generator,  *)
(* email provider) may fail.  The budget counts the task messages whose    *)
(* first execution meets such a failure; a re-execution may meet it again. *)
MayFault(job) == budget.faults > 0

Faulted(job) == [budget EXCEPT !.faults = @ - 1]

MayFaultAgain(job) == job.retries > 0 \/ budget.faults > 0

FaultedAgain(job) ==
    IF job.retries > 0 THEN budget ELSE [budget EXCEPT !.faults = @ - 1]

-----------------------------------------------------------------------------
(* Producers of task messages *)

(* celery beat: scan-all-emails-every-6-hours *)
Beat ==
    /\ budget.sweeps > 0
    /\ budget' = [budget EXCEPT !.sweeps = @ - 1]
    /\ queue' = Enqueue(queue, Msg("sweep", 0, 0))
    /\ UNCHANGED << store, wk, hist, harness >>

(* POST /alerts/{breach_id}/resend *)
resend_breach_alert(id) ==
    /\ budget.resends > 0
    /\ \E ev \in events :
         ev.id = id /\ Owner(ev.monitored_email_id) = CurrentUser
    /\ budget' = [budget EXCEPT !.resends = @ - 1]
    /\ queue' = Enqueue(queue, Msg("dispatch", id, 0))
    /\ UNCHANGED << store, wk, hist, harness >>

-----------------------------------------------------------------------------
(* scan_all_monitored_emails: an idle worker takes the message and runs it. *)
(* A failure of the query sends nothing; a failure of a delay call in the  *)
(* loop comes after the scans already sent, and the retry sends them again *)

ActiveMails == {m \in DOMAIN mails : mails[m].is_active}

RECURSIVE EnqueueScans(_, _)
EnqueueScans(q, ms) ==
    IF ms = {} THEN q
    ELSE LET m == CHOOSE x \in ms : TRUE
         IN  EnqueueScans(Enqueue(q, Msg("scan", m, 0)), ms \ {m})

scan_all_monitored_emails(w) ==
    /\ wk[w].pc = "idle"
    /\ \E j \in Waiting("sweep"), fault \in BOOLEAN :
         LET q == queue (-) SetToBag({j}) IN
         IF fault
         THEN /\ MayFaultAgain(j)
              /\ \E sent \in SUBSET ActiveMails :
                   /\ sent # ActiveMails \/ ActiveMails = {}
                   /\ sent # {} => budget.partial > 0
                   /\ budget' = [FaultedAgain(j) EXCEPT !.partial =
                                    IF sent # {} THEN @ - 1 ELSE @]
                   /\ Failed(w, j, EnqueueScans(q, sent))
         ELSE /\ queue' = EnqueueScans(q, ActiveMails)
              /\ Returned(w, j)
              /\ UNCHANGED budget
    /\ UNCHANGED << store, done, counted, skipped, harness >>

-----------------------------------------------------------------------------
(* process_single_email *)

Mail(w) == Job(w).arg
Breach(w) == normalize_breach(wk[w].brs[wk[w].i])
Key(w) == BuildCacheKey(Breach(w).name, Breach(w).data_classes)

(* the position after breach i: the next breach, or the statements after    *)
(* the loop                                                                *)
NextBreach(rec) ==
    IF rec.i < Len(rec.brs)
    THEN [rec EXCEPT !.i = rec.i + 1, !.pc = "s_check"]
    ELSE [rec EXCEPT !.pc = "s_final"]

(* db_session.commit() and db_session.rollback() both end the transaction: *)
(* no flushed row is pending any more and the loaded objects are expired   *)
Ended(rec) == [rec EXCEPT !.pend = {}, !.expired = TRUE, !.dead = FALSE]

(* A commit that raised and was caught without a rollback: the flushed     *)
(* rows are gone with the transaction, and the session raises on every     *)
(* further flush or commit until rollback() is called                      *)
Broken(rec) == [Ended(rec) EXCEPT !.dead = TRUE]

(* get_breaches_for_email: 200 with the list, 404 as the empty list *)
get_breaches_for_email(m) == Feed[m]

(* a guard that lets an inactive identity through *)
SkipsMissingOnly(id) == id \notin DOMAIN mails

(* "if not monitored_email or not monitored_email.is_active" *)
Skips(id) == id \notin DOMAIN mails \/ ~mails[id].is_active

(* An idle worker takes the message: the query of the MonitoredEmail, the   *)
(* guard on a missing or inactive one, and the request to the feed, which  *)
(* raises on anything but 200 and 404.                                     *)
SLoad(w) ==
    /\ wk[w].pc = "idle"
    /\ \E j \in Waiting("scan"), fault \in BOOLEAN :
         LET q == queue (-) SetToBag({j})
             brs == get_breaches_for_email(j.arg)
         IN  IF Skips(j.arg)
             THEN /\ ~fault
                  /\ queue' = q
                  /\ Returned(w, j)
                  /\ skipped' = skipped \cup {j.arg}
                  /\ UNCHANGED budget
             ELSE IF fault
             THEN /\ MayFaultAgain(j)
                  /\ budget' = FaultedAgain(j)
                  /\ Failed(w, j, q)
                  /\ UNCHANGED skipped
             ELSE /\ queue' = q
                  /\ UNCHANGED skipped
                  /\ wk' = [wk EXCEPT ![w] =
                              [Idle EXCEPT !.job = j, !.brs = brs,
                                           !.snap = mails[j.arg].scan_count,
                                           !.i = IF brs = << >> THEN 0 ELSE 1,
                                           !.pc = IF brs = << >> THEN "s_final"
                                                  ELSE "s_check"]]
                  /\ UNCHANGED << results, budget >>
    /\ UNCHANGED << store, done, counted, harness >>

(* "Prevent redundant entries": the duplicate check; for a new breach the   *)
(* cache query of generate_remediation: a row is a hit, no row or a        *)
(* raising query goes on to the collaborator.                              *)
SCheck(w) ==
    /\ wk[w].pc = "s_check"
    /\ IF HasEvent(Visible(w), Mail(w), Breach(w).name)
       THEN /\ wk' = [wk EXCEPT ![w] = NextBreach(wk[w])]
            /\ UNCHANGED budget
       ELSE \E fault \in BOOLEAN :
              IF fault
              THEN /\ MayFault(Job(w))
                   /\ budget' = Faulted(Job(w))
                   /\ wk' = [wk EXCEPT ![w].pc = "s_gen"]
              ELSE /\ UNCHANGED budget
                   /\ IF CacheRow(Key(w)) = {}
                      THEN wk' = [wk EXCEPT ![w].pc = "s_gen"]
                      ELSE \E r \in CacheRow(Key(w)) :
                             wk' = [wk EXCEPT ![w].pc = "s_hit",
                                              ![w].hit = r.hit_count,
                                              ![w].rid = r.id]
    /\ UNCHANGED << store, queue, hist, harness >>

(* cache hit: hit_count += 1 and db_session.commit(), which commits every   *)
(* row the session has flushed and expires the row that was read.  The     *)
(* UPDATE is of the row that was read, by its id; when that row has been   *)
(* deleted since, it matches no row and the commit raises.  A raising      *)
(* commit is caught by the except branch of the lookup, which does not     *)
(* roll back: the call goes on to the collaborator with a session that is  *)
(* broken.                                                                 *)
SHit(w) ==
    /\ wk[w].pc = "s_hit"
    /\ \E fault \in BOOLEAN :
         IF fault
         THEN /\ MayFault(Job(w))
              /\ budget' = Faulted(Job(w))
              /\ wk' = [wk EXCEPT ![w] = [Broken(wk[w]) EXCEPT !.pc = "s_gen"]]
              /\ UNCHANGED << cache, events >>
         ELSE /\ UNCHANGED budget
              /\ IF \E r \in cache : r.id = wk[w].rid
                 THEN /\ \E r \in cache :
                           /\ r.id = wk[w].rid
                           /\ cache' = (cache \ {r}) \cup
                                          {[r EXCEPT !.hit_count = wk[w].hit + 1]}
                           /\ wk' = [wk EXCEPT ![w] =
                                       [Ended(wk[w]) EXCEPT !.pc = "s_read"]]
                      /\ events' = events \cup wk[w].pend
                 ELSE /\ wk' = [wk EXCEPT ![w] =
                                  [Broken(wk[w]) EXCEPT !.pc = "s_gen"]]
                      /\ UNCHANGED << cache, events >>
    /\ UNCHANGED << mails, alert_logs, nextEventId, nextLogId, nextCacheId, queue,
                    hist, harness >>

(* after the commit of the hit: existing.hit_count and                     *)
(* existing.remediation_text are read from the expired row, which loads it *)
(* again by its id.  When the row has been deleted since the commit, or    *)
(* the SELECT fails, the read raises; no flush has failed, so the except   *)
(* branch of the lookup leaves a session that works, and the call goes on  *)
(* to the collaborator with the hit and the flushed rows committed.        *)
SRead(w) ==
    /\ wk[w].pc = "s_read"
    /\ \E fault \in BOOLEAN :
         IF fault
         THEN /\ MayFault(Job(w))
              /\ budget' = Faulted(Job(w))
              /\ wk' = [wk EXCEPT ![w].pc = "s_gen"]
         ELSE /\ UNCHANGED budget
              /\ IF \E r \in cache : r.id = wk[w].rid
                 THEN \E r \in cache :
                        /\ r.id = wk[w].rid
                        /\ wk' = [wk EXCEPT ![w].pc = "s_add",
                                            ![w].text = r.remediation_text]
                 ELSE wk' = [wk EXCEPT ![w].pc = "s_gen"]
    /\ UNCHANGED << store, queue, hist, harness >>

(* a store without the unique constraint on cache_key *)
StoreFailsOnFaultOnly(w, fault) == fault

(* what add(new_cache_entry); commit() does to the session and the store:   *)
(* the INSERT fails when the unique cache_key is there already (or the     *)
(* store fails), the commit raises at once on a broken session, and the    *)
(* except branch rolls the whole session back                              *)
StoreFails(w, fault) == fault \/ CacheRow(Key(w)) # {} \/ wk[w].dead

(* cache miss: client.messages.create, on an error the fallback text; with *)
(* a text, the attempt to save it to the cache                             *)
SGen(w) ==
    /\ wk[w].pc = "s_gen"
    /\ \E fault \in {"none", "llm", "store"} :
         /\ fault # "none" => MayFault(Job(w))
         /\ budget' = IF fault # "none" THEN Faulted(Job(w)) ELSE budget
         /\ IF fault = "llm"
            THEN /\ wk' = [wk EXCEPT ![w].pc = "s_add", ![w].text = Fallback]
                 /\ UNCHANGED << cache, events, nextCacheId >>
            ELSE IF StoreFails(w, fault = "store")
            THEN /\ wk' = [wk EXCEPT ![w] =
                             [Ended(wk[w]) EXCEPT !.pc = "s_add",
                                                  !.text = GeneratedText(w)]]
                 /\ UNCHANGED << cache, events, nextCacheId >>
            ELSE /\ cache' = cache \cup
                       {[id |-> nextCacheId, cache_key |-> Key(w),
                         breach_name |-> Breach(w).name,
                         remediation_text |-> GeneratedText(w), hit_count |-> 1]}
                 /\ nextCacheId' = nextCacheId + 1
                 /\ events' = events \cup wk[w].pend
                 /\ wk' = [wk EXCEPT ![w] =
                             [Ended(wk[w]) EXCEPT !.pc = "s_add",
                                                  !.text = GeneratedText(w)]]
    /\ UNCHANGED << mails, alert_logs, nextEventId, nextLogId, queue, hist,
                    harness >>

NewBreach(w) ==
    [id |-> nextEventId, monitored_email_id |-> Mail(w),
     breach_name |-> Breach(w).name, data_classes |-> Breach(w).data_classes,
     severity |-> calculate_severity(Breach(w).data_classes).label,
     severity_score |-> calculate_severity(Breach(w).data_classes).score,
     remediation_text |-> wk[w].text, detected_at |-> now,
     is_notified |-> FALSE, notified_at |-> NoTime]

(* add(new_breach); flush(); count += 1; dispatch_alerts.delay(id).  On a   *)
(* broken session the flush raises.  Otherwise the INSERT waits while      *)
(* another transaction holds an uncommitted row of the same                *)
(* (monitored_email_id, breach_name), and fails on a committed one.        *)
SAdd(w) ==
    /\ wk[w].pc = "s_add"
    /\ \/ wk[w].dead
       \/ \A o \in Workers \ {w} : ~HasEvent(wk[o].pend, Mail(w), Breach(w).name)
    /\ IF wk[w].dead \/ HasEvent(events, Mail(w), Breach(w).name)
       THEN /\ Failed(w, Job(w), queue)
            /\ UNCHANGED nextEventId
       ELSE /\ wk' = [wk EXCEPT ![w] =
                        NextBreach([wk[w] EXCEPT
                            !.pend = wk[w].pend \cup {NewBreach(w)},
                            !.created = wk[w].created \cup {nextEventId},
                            !.count = wk[w].count + 1])]
            /\ nextEventId' = nextEventId + 1
            /\ queue' = Enqueue(queue, Msg("dispatch", nextEventId, 0))
            /\ UNCHANGED results
    /\ UNCHANGED << mails, events, cache, alert_logs, nextLogId, nextCacheId, done,
                    counted, skipped,
                    budget, harness >>

(* last_scanned_at, scan_count += 1, commit.  The ORM object is read again  *)
(* from the store when a commit or rollback has expired it.                *)
SFinal(w) ==
    /\ wk[w].pc = "s_final"
    /\ \E fault \in BOOLEAN :
         IF fault
         THEN /\ MayFault(Job(w))
              /\ budget' = Faulted(Job(w))
              /\ Failed(w, Job(w), queue)
              /\ UNCHANGED << mails, events, counted, done >>
         ELSE /\ mails' = [mails EXCEPT ![Mail(w)] =
                            [@ EXCEPT !.last_scanned_at = utcnow(@),
                                      !.scan_count = (IF wk[w].expired
                                                      THEN mails[Mail(w)].scan_count
                                                      ELSE wk[w].snap) + 1]]
              /\ events' = events \cup wk[w].pend
              /\ counted' = counted \cup wk[w].created
              /\ done' = done \cup {Mail(w)}
              /\ Returned(w, Job(w))
              /\ UNCHANGED << queue, budget >>
    /\ UNCHANGED << cache, alert_logs, nextEventId, nextLogId, nextCacheId, skipped,
                    harness >>

-----------------------------------------------------------------------------
(* dispatch_alerts *)

EventOf(id) == {ev \in events : ev.id = id}

(* the guard without its is_notified test *)
GuardMissingOnly(id) == EventOf(id) = {}

(* the guard of dispatch_alerts: the event is missing or already notified *)
Guard(id) == EventOf(id) = {} \/ \E ev \in EventOf(id) : ev.is_notified

(* getattr(owner, "phone_number", None): User has no such column *)
phone_number(mail) == NoPhone

(* the phone_number field of the POST /emails request that added the       *)
(* identity: given for the first, left out for the second                  *)
RequestedPhone(mail) == IF mail = 1 THEN "+15551234567" ELSE NoPhone

(* monitored_email.email_preview *)
preview_address(mail) == IF mail = 1 THEN "joh***@gmail.com" ELSE "ali***@example.org"

NoError == "None"

(* str.isdigit(): the ASCII digits and every other character of the       *)
(* Unicode category of digits, of which the superscript digits are the    *)
(* ones a string of this module can hold                                  *)
Digits == { "0", "1", "2", "3", "4", "5", "6", "7", "8", "9", "¹", "²", "³" }

(* to_phone.startswith("+") and to_phone[1:].isdigit() *)
ValidPhone(to_phone) ==
    /\ Len(to_phone) >= 2
    /\ SubSeq(to_phone, 1, 1) = "+"
    /\ \A i \in 2..Len(to_phone) : SubSeq(to_phone, i, i) \in Digits

(* send_breach_sms: the severity gate, the format check, the body (whose   *)
(* assertion is outside the try and so escapes as "raised"), and the       *)
(* provider call, whose exceptions become a failed result                  *)
send_breach_sms(to_phone, breach_name, severity, preview, accepted) ==
    IF severity \notin { "CRITICAL", "HIGH" }
    THEN [status |-> "skipped", reason |-> "severity_below_threshold", error |-> NoError]
    ELSE IF ~ValidPhone(to_phone)
    THEN [status |-> "failed", reason |-> NoError, error |-> "Invalid phone number format"]
    ELSE IF build_sms_message(breach_name, severity, preview).raised
    THEN [status |-> "raised", reason |-> NoError, error |-> NoError]
    ELSE IF accepted
    THEN [status |-> "sent", reason |-> NoError, error |-> NoError]
    ELSE [status |-> "failed", reason |-> NoError, error |-> "provider error"]

(* the SMS AlertLog row: written only with a phone number, its             *)
(* error_message taken from the "error" key of the result                  *)
SmsRows(id, first, phone, sms_result) ==
    IF phone = NoPhone THEN {}
    ELSE {[id |-> first, breach_event_id |-> id, channel |-> "sms",
           status |-> sms_result.status, error_message |-> sms_result.error]}

(* An idle worker takes the message: the query of the BreachEvent and the   *)
(* guard                                                                   *)
DLoad(w) ==
    /\ wk[w].pc = "idle"
    /\ \E j \in Waiting("dispatch") :
         /\ queue' = queue (-) SetToBag({j})
         /\ IF Guard(j.arg)
            THEN Returned(w, j)
            ELSE /\ wk' = [wk EXCEPT ![w] = [Idle EXCEPT !.job = j, !.pc = "d_send"]]
                 /\ UNCHANGED results
    /\ UNCHANGED << store, done, counted, skipped, budget, harness >>

(* a dispatch that writes no AlertLog row *)
NoLogRows(id, first, email_status) == {}

(* the AlertLog rows of one dispatch with the ids the INSERTs give them:    *)
(* the email row always, the SMS row only with a phone number              *)
LogRows(id, first, email_status) ==
    {[id |-> first, breach_event_id |-> id, channel |-> "email",
      status |-> email_status,
      error_message |-> IF email_status = "sent" THEN NoError ELSE "provider error"]}

(* The channel attempts and the commit: send_breach_alert answers "sent" or *)
(* "failed" and never raises; send_breach_sms is called only with a phone  *)
(* number; then is_notified = True, notified_at = utcnow() and the         *)
(* AlertLog rows are committed in one transaction.  A raising commit, or   *)
(* an exception out of send_breach_sms, goes to the except branch.         *)
DSend(w) ==
    /\ wk[w].pc = "d_send"
    /\ \E fault \in {"none", "mail", "sms", "commit"} :
       LET breach_event == CHOOSE ev \in EventOf(Job(w).arg) : TRUE
           phone == phone_number(breach_event.monitored_email_id)
           sms_result == send_breach_sms(phone, breach_event.breach_name,
                             breach_event.severity,
                             preview_address(breach_event.monitored_email_id),
                             fault # "sms")
           escapes == fault = "commit" \/ (phone # NoPhone /\ sms_result.status = "raised")
       IN
         /\ fault = "mail" => MayFault(Job(w))
         /\ fault = "sms" => (phone # NoPhone /\ MayFault(Job(w)))
         /\ fault = "commit" => MayFaultAgain(Job(w))
         /\ budget' = CASE fault \in {"mail", "sms"} -> Faulted(Job(w))
                        [] fault = "commit" -> FaultedAgain(Job(w))
                        [] OTHER -> budget
         /\ IF escapes
            THEN /\ Failed(w, Job(w), queue)
                 /\ UNCHANGED << events, alert_logs, nextLogId >>
            ELSE LET rows == LogRows(Job(w).arg, nextLogId,
                                     IF fault = "mail" THEN "failed" ELSE "sent")
                               \cup SmsRows(Job(w).arg, nextLogId + 1, phone, sms_result)
                 IN  /\ events' = {IF ev.id = Job(w).arg
                                   THEN [ev EXCEPT !.is_notified = TRUE,
                                                   !.notified_at = utcnow(@)]
                                   ELSE ev : ev \in events}
                     /\ alert_logs' = alert_logs \cup rows
                     /\ nextLogId' = nextLogId + Cardinality(rows)
                     /\ Returned(w, Job(w))
                     /\ UNCHANGED queue
    /\ UNCHANGED << mails, cache, nextEventId, nextCacheId, done, counted, skipped,
                    harness >>

-----------------------------------------------------------------------------
Work(w) ==
    \/ scan_all_monitored_emails(w)
    \/ SLoad(w) \/ SCheck(w) \/ SHit(w) \/ SRead(w) \/ SGen(w) \/ SAdd(w)
    \/ SFinal(w)
    \/ DLoad(w) \/ DSend(w)

Next ==
    \/ Beat
    \/ \E id \in 1..(nextEventId - 1) : resend_breach_alert(id)
    \/ \E w \in Workers : Work(w)

Spec == Init /\ [][Next]_vars

-----------------------------------------------------------------------------
(* The ingestion with the steps of the feed client spelled out: the clock,  *)
(* the HIBPClient each scan constructs, the answers of the feed, and an    *)
(* identity the feed does not know, which the owner may stop monitoring    *)

QuietMail == 3

(* the status the feed answers with when nothing goes wrong *)
FeedAnswer(m) == IF m \in DOMAIN Feed THEN 200 ELSE 404

(* unauthorized, rate-limited, server error *)
BadAnswers == { 401, 429, 500 }

(* a client that takes every answer for a list of breaches *)
SomeBody(status, m) == Feed[1]

(* response.json() of a 200, [] for a 404 *)
Body(status, m) == IF status = 200 THEN Feed[m] ELSE << >>

(* _wait_for_rate_limit at time t: the end of its sleep *)
WakeTime(last, t) ==
    IF t - last < RateLimit THEN t + (RateLimit - (t - last)) ELSE t

(* time passes *)
Tick ==
    /\ budget.ticks > 0
    /\ budget' = [budget EXCEPT !.ticks = @ - 1]
    /\ now' = now + RateLimit \div 2
    /\ UNCHANGED << store, queue, wk, hist, calls, weekly, route, client, requests >>

(* time.sleep: time passes until the sleep of a client ends *)
TimeToWake(w) ==
    /\ wk[w].pc \in { "f_wait", "f_get" }
    /\ client[w].wake > now
    /\ now' = client[w].wake
    /\ UNCHANGED << store, queue, wk, hist, budget, calls, weekly, route, client, requests >>

(* DELETE /emails/{email_id}: 404 unless the identity is the current       *)
(* user's                                                                  *)
stop_monitoring_email(m) ==
    /\ budget.stops > 0
    /\ m \in DOMAIN mails
    /\ Owner(m) = CurrentUser
    /\ budget' = [budget EXCEPT !.stops = @ - 1]
    /\ mails' = [mails EXCEPT ![m].is_active = FALSE]
    /\ UNCHANGED << events, cache, alert_logs, nextEventId, nextLogId,
                    nextCacheId, queue, wk, hist, harness >>

(* the id the INSERT gives to a new identity *)
NewMailId == Cardinality(DOMAIN mails) + 1

(* POST /emails with the address of identity m: an address the current     *)
(* user stopped monitoring, or a new address, whose identity gets the next *)
(* id; 409 when it is monitored already.  The row is flushed and           *)
(* process_single_email.delay(id) called before the commit.                *)
add_monitored_email(m) ==
    /\ budget.adds > 0
    /\ route.pc = "idle"
    /\ Owner(m) = CurrentUser
    /\ IF m \in DOMAIN mails THEN ~mails[m].is_active ELSE m = NewMailId
    /\ budget' = [budget EXCEPT !.adds = @ - 1]
    /\ queue' = Enqueue(queue, Msg("scan", m, 0))
    /\ route' = [NoRoute EXCEPT !.pc = "a_commit", !.arg = m]
    /\ UNCHANGED << store, wk, hist, calls, feedside, weekly >>

(* db.commit() of POST /emails: the new row, or is_active = True again *)
AddCommit ==
    /\ route.pc = "a_commit"
    /\ mails' = [m \in DOMAIN mails \cup { route.arg } |->
                   IF m # route.arg THEN mails[m]
                   ELSE IF m \in DOMAIN mails
                        THEN [mails[m] EXCEPT !.is_active = TRUE]
                        ELSE [is_active |-> TRUE, scan_count |-> 0,
                              last_scanned_at |-> NoTime]]
    /\ route' = NoRoute
    /\ UNCHANGED << events, cache, alert_logs, nextEventId, nextLogId,
                    nextCacheId, queue, wk, hist, budget, calls, feedside,
                    weekly >>

(* An idle worker takes the message: the query of the MonitoredEmail, the   *)
(* guard, and "with HIBPClient() as client"                                *)
SOpen(w) ==
    /\ wk[w].pc = "idle"
    /\ \E j \in Waiting("scan") :
         /\ queue' = queue (-) SetToBag({j})
         /\ IF Skips(j.arg)
            THEN /\ Returned(w, j)
                 /\ skipped' = skipped \cup {j.arg}
                 /\ UNCHANGED client
            ELSE /\ wk' = [wk EXCEPT ![w] =
                             [Idle EXCEPT !.job = j, !.pc = "f_wait",
                                          !.snap = mails[j.arg].scan_count]]
                 /\ client' = [client EXCEPT ![w] = NewClient]
                 /\ UNCHANGED << results, skipped >>
    /\ UNCHANGED << store, done, counted, budget, calls, weekly, route, now, requests >>

(* _wait_for_rate_limit, entered when the cooldown sleep (if any) is over:  *)
(* elapsed is taken against this client's own _last_request_time           *)
FWait(w) ==
    /\ wk[w].pc = "f_wait"
    /\ now >= client[w].wake
    /\ client' = [client EXCEPT ![w].wake = WakeTime(client[w].last, now)]
    /\ wk' = [wk EXCEPT ![w].pc = "f_get"]
    /\ UNCHANGED << store, queue, hist, budget, calls, weekly, route, now, requests >>

(* The feed may answer badly.  The budget counts the executions of a scan  *)
(* that get such an answer; the request after a cooldown may get one too.  *)
FeedFailed(w) ==
    IF client[w].tries > 0 THEN budget ELSE [budget EXCEPT !.feed = @ - 1]

(* _last_request_time = time.time(); session.get(url); the answer: a first  *)
(* 429 sleeps five seconds and asks again; 404 is the empty list, 200 the  *)
(* list; 401 raises ValueError and anything else RuntimeError, which the   *)
(* except branch of process_single_email takes                             *)
FGet(w) ==
    /\ wk[w].pc = "f_get"
    /\ now >= client[w].wake
    /\ requests' = Append(requests, now)
    /\ \E status \in { FeedAnswer(Mail(w)) } \cup BadAnswers :
         LET again == status = 429 /\ client[w].tries = 0
             brs == Body(status, Mail(w))
         IN
         /\ status \in BadAnswers => (client[w].tries > 0 \/ budget.feed > 0)
         /\ budget' = IF status \in BadAnswers THEN FeedFailed(w) ELSE budget
         /\ client' = [client EXCEPT ![w] =
                         [last |-> now,
                          wake |-> IF again THEN now + Cooldown ELSE now,
                          tries |-> client[w].tries + 1,
                          status |-> status]]
         /\ IF again
            THEN /\ wk' = [wk EXCEPT ![w].pc = "f_wait"]
                 /\ UNCHANGED << queue, results >>
            ELSE IF status \in { 200, 404 }
            THEN /\ wk' = [wk EXCEPT ![w].brs = brs,
                                     ![w].i = IF brs = << >> THEN 0 ELSE 1,
                                     ![w].pc = IF brs = << >> THEN "s_final"
                                               ELSE "s_check"]
                 /\ UNCHANGED << queue, results >>
            ELSE Failed(w, Job(w), queue)
    /\ UNCHANGED << store, done, counted, skipped, calls, weekly, route, now >>

(* the ingestion side of a worker; the dispatch messages stay on the broker *)
WorkIngest(w) ==
    \/ scan_all_monitored_emails(w)
    \/ SOpen(w) \/ FWait(w) \/ FGet(w)
    \/ SCheck(w) \/ SHit(w) \/ SRead(w) \/ SGen(w) \/ SAdd(w) \/ SFinal(w)

NextIngest ==
    \/ Beat
    \/ Tick
    \/ \E m \in DOMAIN mails : stop_monitoring_email(m)
    \/ \E w \in Workers : TimeToWake(w) \/ WorkIngest(w)

InitIngest ==
    /\ InitWith(MailIds \cup { QuietMail })
    /\ budget = [Nothing EXCEPT !.sweeps = MaxSweeps, !.feed = MaxFeedFaults,
                                !.stops = MaxStops, !.ticks = MaxTicks]

SpecIngest == InitIngest /\ [][NextIngest]_vars

(* The same with the requests that add an identity, from the store of two  *)
(* identities and with a feed that answers, so that no client sleeps for   *)
(* a cooldown: the third identity comes with POST /emails, a stopped one   *)
(* comes back with it                                                      *)
InitEnrol ==
    /\ InitStore
    /\ budget = [Nothing EXCEPT !.sweeps = MaxSweeps, !.stops = MaxStops,
                                !.ticks = MaxTicks, !.adds = MaxAdds]

NextEnrol ==
    \/ Beat
    \/ Tick
    \/ \E m \in DOMAIN mails : stop_monitoring_email(m)
    \/ \E m \in MailIds \cup { QuietMail } : add_monitored_email(m)
    \/ AddCommit
    \/ \E w \in Workers : WorkIngest(w)

SpecEnrol == InitEnrol /\ [][NextEnrol]_vars

-----------------------------------------------------------------------------
(* _build_cache_key on its own: every breach name with every list of at     *)
(* most MaxLen data classes                                                *)

RECURSIVE SeqsUpTo(_, _)
SeqsUpTo(S, n) ==
    IF n = 0 THEN {<< >>}
    ELSE LET shorter == SeqsUpTo(S, n - 1)
         IN  shorter \cup {Append(q, x) : q \in shorter, x \in S}

KeyCall ==
    /\ \E name \in Names, cats \in SeqsUpTo(Classes, MaxLen) :
         /\ keyIn' = << name, cats >>
         /\ keyOut' = BuildCacheKey(name, cats)
    /\ UNCHANGED << store, queue, wk, hist, budget, sevIn, sevOut, smsIn, smsOut,
                    feedside, weekly, route >>

(* Two beat ticks and no failure of a collaborator: every identity is      *)
(* swept twice against the same feed.                                      *)
InitRerun ==
    /\ InitStore
    /\ budget = [Nothing EXCEPT !.sweeps = RerunSweeps]

(* beat and workers only *)
NextPipeline == Beat \/ \E w \in Workers : Work(w)

SpecRerun == InitRerun /\ [][NextPipeline]_vars

SpecKey == Init /\ [][KeyCall]_vars

(* The categories a feed entry is scored on: a critical class, the two     *)
(* identity documents, mid and low weights, and one class the weight table *)
(* does not know.                                                          *)
SevClasses ==
    { "Passwords", "Passport numbers", "Purchases", "Email addresses",
      "Names", "Device information", "Avatars", "Zodiac signs" }

(* calculate_severity on the last list with one more category appended *)
SeverityCall ==
    /\ Len(sevIn) < MaxCats
    /\ \E c \in SevClasses :
         /\ sevIn' = Append(sevIn, c)
         /\ sevOut' = calculate_severity(Append(sevIn, c))
    /\ UNCHANGED << store, queue, wk, hist, budget, keyIn, keyOut, smsIn, smsOut,
                    feedside, weekly, route >>

SpecSeverity == Init /\ [][SeverityCall]_vars

Labels == { "CRITICAL", "HIGH", "MEDIUM", "LOW" }

(* the same masked preview for a domain one character longer *)
LongerDomain(email_preview) ==
    SubSeq(email_preview, 1, 7) \o "a" \o SubSeq(email_preview, 8, Len(email_preview))

(* build_sms_message on the last arguments, the breach name or the domain  *)
(* of the preview grown by a character, under any severity label           *)
SmsCall ==
    /\ \E name \in { smsIn[1], smsIn[1] \o "n" }, severity \in Labels,
          preview \in { smsIn[3], LongerDomain(smsIn[3]) } :
         /\ Len(name) <= MaxNameLen
         /\ Len(preview) <= MaxPreviewLen
         /\ smsIn' = << name, severity, preview >>
         /\ smsOut' = build_sms_message(name, severity, preview)
    /\ UNCHANGED << store, queue, wk, hist, budget, keyIn, keyOut, sevIn, sevOut,
                    feedside, weekly, route >>

SpecSms == Init /\ [][SmsCall]_vars

-----------------------------------------------------------------------------
(* Properties *)

Unique(rows) ==
    \A a, b \in rows :
        (a.monitored_email_id = b.monitored_email_id
            /\ a.breach_name = b.breach_name) => a = b

(* a scan that began after a scan of the same identity had run to its end:  *)
(* the scan_count it read counts that earlier scan                         *)
Rerun(w) == Job(w).task = "scan" /\ wk[w].snap >= 1

(* C1: the store never holds two BreachEvent rows with the same             *)
(* (monitored_email_id, breach_name), and a scan that re-runs a completed  *)
(* scan of an identity against the unchanged feed commits no BreachEvent   *)
(* row of its own.                                                         *)
C1_Original ==
    [][ /\ Unique(events')
        /\ \A w \in Workers :
             Rerun(w) => \A ev \in events' \ events : ev.id \notin wk[w].created
      ]_vars

(* C2: in every committed state the events created by a scan are there      *)
(* exactly when the scan_count increment of that scan is there: no         *)
(* committed event without the increment of its scan, no increment with    *)
(* one of its events missing.                                              *)
C2_Original ==
    /\ \A ev \in events : ev.id \in counted
    /\ \A id \in counted : \E ev \in events : ev.id = id

Notified(rows, id) == \E ev \in rows : ev.id = id /\ ev.is_notified

(* the dispatch messages a step takes from the broker *)
Taken(j) ==
    /\ j.task = "dispatch"
    /\ j \in BagToSet(queue)
    /\ queue' = queue (-) SetToBag({j})

(* C3: a NOTIFIED event stays NOTIFIED, and a dispatch_alerts execution     *)
(* that begins on a NOTIFIED event or on a missing id is a no-op: the task *)
(* returns at its guard, no channel attempt follows, and no row of the     *)
(* store (flag, notified_at, delivery records) changes.                    *)
C3_NotifiedIsFinal ==
    [][ /\ \A ev \in events : ev.is_notified => Notified(events', ev.id)
        /\ \A j \in BagToSet(queue) :
             (Taken(j) /\ (Notified(events, j.arg) \/ ~\E ev \in events : ev.id = j.arg)) =>
                 /\ UNCHANGED store
                 /\ \A w \in Workers :
                      wk'[w] # wk[w] => wk[w].pc = "idle" /\ wk'[w] = Idle
                 /\ Outcome(j, "returned") \in results'
      ]_vars

(* C3 witness: with no failure anywhere, the dispatch of every scan and a   *)
(* manual resend have all been consumed, every event is NOTIFIED and has   *)
(* one delivery record: one more dispatch ran than records were written,   *)
(* the one that returned at the guard.                                     *)
C3_Witness ==
    /\ events # {}
    /\ \A ev \in events : ev.is_notified
    /\ budget.resends = 0
    /\ budget.faults = MaxFaults
    /\ queue = EmptyBag
    /\ \A w \in Workers : wk[w].pc = "idle"
    /\ Cardinality(alert_logs) = Cardinality(events)

LogsOf(rows, id) == {l \in rows : l.breach_event_id = id}

(* C4: an event never has two email delivery records: of the dispatches     *)
(* that run for one event, at most one performs the channel attempts and   *)
(* commits its records.                                                    *)
C4_Original ==
    \A ev \in events :
        Cardinality({l \in LogsOf(alert_logs, ev.id) : l.channel = "email"}) <= 1

(* C5: the flag, notified_at and the delivery records of a dispatch are     *)
(* committed in one step: an event becomes NOTIFIED only in a step that    *)
(* commits delivery records for it; delivery records are committed only    *)
(* together with the flag and the timestamp; and a dispatch that ends      *)
(* without committing its records leaves events and records as they were.  *)
C5_FlagAndRecordsTogether ==
    [][ /\ \A id \in 1..(nextEventId - 1) :
             LET new == LogsOf(alert_logs' \ alert_logs, id)
             IN  /\ (~Notified(events, id) /\ Notified(events', id)) => new # {}
                 /\ new # {} => Notified(events', id)
        /\ \A l \in alert_logs' : Notified(events', l.breach_event_id)
        /\ \A ev \in events' : ev.is_notified <=> ev.notified_at # NoTime
        /\ \A w \in Workers :
             (wk[w].pc = "d_send" /\ wk'[w].pc # "d_send") =>
                 \/ /\ LogsOf(alert_logs' \ alert_logs, Job(w).arg) # {}
                    /\ Notified(events', Job(w).arg)
                 \/ UNCHANGED << events, alert_logs >>
      ]_vars

(* C5 witness: one dispatch has failed at its commit and left nothing, a    *)
(* later one has committed flag and record of the same event together.     *)
C5_Witness ==
    /\ Outcome(Msg("dispatch", 1, 0), "Retry") \in results
    /\ Notified(events, 1)
    /\ Cardinality(LogsOf(alert_logs, 1)) = 1

(* C6: every task execution ends by returning its outcome dict; no          *)
(* exception leaves a task.                                                *)
C6_Original == \A r \in results : r.outcome = "returned"

(* The pipeline on its own (beat and workers, no request of the API), with  *)
(* the workers scheduled fairly: a worker that can make a step of its      *)
(* task, or take a message, eventually does.                               *)
InitFair ==
    /\ InitStore
    /\ budget = [Nothing EXCEPT !.sweeps = MaxSweeps, !.faults = MaxFaults,
                                !.partial = MaxPartial]

FairSpec ==
    InitFair /\ [][NextPipeline]_vars /\ \A w \in Workers : WF_vars(Work(w))

Running == {wk[w].job : w \in Workers} \ {NoJob}

RetriesBounded ==
    \A j \in BagToSet(queue) \cup Running : j.retries <= MaxRetriesOf(j.task)

Quiescent == queue = EmptyBag /\ \A w \in Workers : wk[w].pc = "idle"

(* a step ends an execution of message m: a worker that ran it is idle      *)
(* again, or the message was taken and failed at its first statement       *)
EndsExecution(m) ==
    \/ \E w \in Workers : wk[w].job = m /\ wk'[w] = Idle
    \/ m \in BagToSet(queue) /\ CopiesIn(m, queue') < CopiesIn(m, queue)

(* C7: no message is ever sent or run with more retries than its task       *)
(* allows (3 for process_single_email and scan_all_monitored_emails, 2 for *)
(* dispatch_alerts); a message with retries r + 1 appears only as the one  *)
(* re-send of an execution with retries r that ended in this step; and     *)
(* with fairly scheduled workers the broker is eventually drained and all  *)
(* workers idle for good: every job has ended, returned or failed.         *)
C7_BoundedRetries ==
    /\ []RetriesBounded
    /\ [][ \A m \in BagToSet(queue') :
             (m.retries > 0 /\ CopiesIn(m, queue') > CopiesIn(m, queue)) =>
                 /\ CopiesIn(m, queue') = CopiesIn(m, queue) + 1
                 /\ EndsExecution(Msg(m.task, m.arg, m.retries - 1))
         ]_vars
    /\ <>[]Quiescent

(* C7 witness: a scan has failed on every execution, its last one ended in  *)
(* the terminal failure, and nothing is left to run.                       *)
C7_Witness ==
    /\ Outcome(Msg("scan", 1, 0), "exc") \in results
    /\ Quiescent

(* worker w makes a step of its own in this step *)
Steps(w) == wk'[w] # wk[w]

(* generate_remediation never raises: a step of worker w from the cache    *)
(* lookup, the hit, its read or the call of the collaborator goes on with  *)
(* the same                                                                *)
(* task message, no task outcome is recorded and nothing is sent again;    *)
(* after the collaborator the caller holds a text, the generated one or    *)
(* the fixed fallback text (which is never cached)                         *)
AdviceReturns(w) ==
    (Steps(w) /\ wk[w].pc \in {"s_check", "s_hit", "s_read", "s_gen"}) =>
        /\ wk'[w].job = wk[w].job
        /\ wk'[w].pc \in {"s_check", "s_hit", "s_read", "s_gen", "s_add",
                           "s_final"}
        /\ UNCHANGED << results, queue >>
        /\ wk[w].pc = "s_hit" => wk'[w].pc \in {"s_read", "s_gen"}
        /\ wk[w].pc = "s_read" => wk'[w].pc \in {"s_add", "s_gen"}
        /\ wk[w].pc = "s_gen" =>
             /\ wk'[w].pc = "s_add"
             /\ wk'[w].i = wk[w].i
             /\ wk'[w].text \in {Fallback, GeneratedText(w)}
             /\ wk'[w].text # GeneratedText(w) => cache' = cache

(* the part of C8 about generate_remediation alone: whatever fails inside  *)
(* it, the call returns a text to its caller                               *)
C8_AdviceNeverFails == [][ \A w \in Workers : AdviceReturns(w) ]_vars

(* One sweep with the collaborators of the pipeline failing up to          *)
(* MaxAdviceFaults times, so that two failures can meet in one call of     *)
(* generate_remediation                                                    *)
InitAdvice ==
    /\ InitStore
    /\ budget = [Nothing EXCEPT !.sweeps = MaxSweeps,
                                !.faults = MaxAdviceFaults]

SpecAdvice == InitAdvice /\ [][NextPipeline]_vars

(* C8 as stated: generate_remediation never raises to its caller: it       *)
(* returns the fixed fallback text when the collaborator fails and a text  *)
(* when the cache lookup or store fails; so process_single_email always    *)
(* goes on to create the BreachEvent, and a failure inside the advisory    *)
(* call alone never makes the scan fail or retry: the step that adds the   *)
(* BreachEvent with a session the advisory call left broken keeps the      *)
(* task message and records no failure of the task.                        *)
C8_Original ==
    [][ \A w \in Workers :
          /\ AdviceReturns(w)
          /\ (Steps(w) /\ wk[w].pc = "s_add" /\ wk[w].dead) =>
                /\ wk'[w].job = wk[w].job
                /\ UNCHANGED results
      ]_vars

(* a generate_remediation call for key k has returned before: the event     *)
(* made with its text is there                                             *)
Called(k) ==
    \E ev \in events \cup UNION {wk[o].pend : o \in Workers} :
        BuildCacheKey(ev.breach_name, ev.data_classes) = k

(* C9 as stated: after the first generate_remediation call for a pair, no   *)
(* later call for that pair goes on from its lookup to the collaborator.   *)
C9_Original ==
    [][ \A w \in Workers :
          ~(wk[w].pc = "s_check" /\ wk'[w].pc = "s_gen" /\ Called(Key(w)))
      ]_vars

(* C9, amended: when a committed cache entry for the pair exists, a call    *)
(* whose lookup, whose hit commit and whose read of the entry after the    *)
(* commit do not fail returns the text of the entry without a call to the  *)
(* collaborator.                                                           *)
C9_HitReturnsEntry ==
    [][ \A w \in Workers :
          /\ ( /\ wk[w].pc = "s_check" /\ Steps(w)
               /\ ~HasEvent(Visible(w), Mail(w), Breach(w).name)
               /\ \E r \in cache : r.cache_key = Key(w)
               /\ budget' = budget ) => wk'[w].pc = "s_hit"
          /\ (wk[w].pc = "s_hit" /\ Steps(w) /\ budget' = budget) =>
               wk'[w].pc = "s_read"
          /\ (wk[w].pc = "s_read" /\ Steps(w) /\ budget' = budget) =>
               /\ wk'[w].pc = "s_add"
               /\ \E r \in cache : /\ r.cache_key = Key(w)
                                   /\ wk'[w].text = r.remediation_text
      ]_vars

(* C9 witness: a call has returned the text of the entry on a cache hit *)
C9_Witness ==
    \E w \in Workers :
        /\ wk[w].pc = "s_add"
        /\ \E r \in cache : /\ r.cache_key = Key(w)
                            /\ r.hit_count = wk[w].hit + 1
                            /\ r.hit_count >= 2
                            /\ wk[w].text = r.remediation_text

SameItems(xs, ys) ==
    /\ Len(xs) = Len(ys)
    /\ \A c \in Classes :
         Cardinality({k \in 1..Len(xs) : xs[k] = c})
             = Cardinality({k \in 1..Len(ys) : ys[k] = c})

(* C10: _build_cache_key gives the same key for every permutation of the    *)
(* category list, and the key is a function of name and categories alone.  *)
C10_KeyPermutationInvariant ==
    keyIn # << >> =>
        /\ keyOut = BuildCacheKey(keyIn[1], keyIn[2])
        /\ \A ys \in SeqsUpTo(Classes, MaxLen) :
             SameItems(keyIn[2], ys) => BuildCacheKey(keyIn[1], ys) = keyOut

(* C10 witness: the key of a list that is not in sorted order *)
C10_Witness ==
    /\ keyIn # << >>
    /\ Len(keyIn[2]) = MaxLen
    /\ keyIn[2] # Sorted(keyIn[2])
    /\ keyOut = BuildCacheKey(keyIn[1], Sorted(keyIn[2]))

OneEntryPerKey ==
    \A a, b \in cache : a.cache_key = b.cache_key => a = b

(* worker w comes back from the collaborator with a generated text and has  *)
(* tried to store it, while an entry of its key was there already          *)
StoreConflict(w) ==
    /\ wk[w].pc = "s_gen" /\ wk'[w].pc = "s_add"
    /\ wk'[w].text = GeneratedText(w)
    /\ \E r \in cache : r.cache_key = Key(w)

(* C11 as stated: the cache holds at most one entry per key, and after a    *)
(* store conflict the entry holds the text of the writer that came last.   *)
C11_Original ==
    /\ []OneEntryPerKey
    /\ [][ \A w \in Workers :
             StoreConflict(w) =>
                 \E r \in cache' : /\ r.cache_key = Key(w)
                                   /\ r.remediation_text = wk'[w].text
         ]_vars

(* C11, amended: the cache holds at most one entry per key; the text of an  *)
(* entry never changes once it is stored; a writer that finds the key      *)
(* taken leaves the cache as it is, gets its own generated text back and   *)
(* goes on to create its event with no task outcome recorded (first write  *)
(* wins, the conflict is absorbed).                                        *)
C11_FirstWriteWins ==
    /\ []OneEntryPerKey
    /\ [][ /\ \A r \in cache : \E n \in cache' :
                 /\ n.cache_key = r.cache_key
                 /\ n.remediation_text = r.remediation_text
           /\ \A w \in Workers :
                StoreConflict(w) =>
                    /\ cache' = cache
                    /\ wk'[w].job = wk[w].job
                    /\ UNCHANGED << results, queue >>
         ]_vars

(* C11 witness: with no failure of a collaborator, a worker holds its own   *)
(* generated text for a key whose entry holds the text of another worker.  *)
C11_Witness ==
    /\ budget.faults = MaxFaults
    /\ \E w \in Workers :
         /\ wk[w].pc = "s_add"
         /\ wk[w].text = GeneratedText(w)
         /\ \E r \in cache : /\ r.cache_key = Key(w)
                             /\ r.remediation_text # wk[w].text

(* C12: every cache hit adds exactly one to the hit_count of the entry:      *)
(* the step in which a call commits its hit leaves the committed           *)
(* hit_count one above what it was, whatever other workers did meanwhile.  *)
C12_Original ==
    [][ \A w \in Workers :
          (wk[w].pc = "s_hit" /\ wk'[w].pc = "s_read") =>
              \E r \in cache, n \in cache' :
                  /\ r.cache_key = Key(w)
                  /\ n.cache_key = Key(w)
                  /\ n.hit_count = r.hit_count + 1
      ]_vars

(* C13: for every category list (recognized, unrecognized, repeated or     *)
(* empty) the score lies in 0..100, and appending a category never yields  *)
(* a lower score than the list without it.                                 *)
C13_ScoreBoundedMonotone ==
    /\ [](sevOut.score \in 0..100)
    /\ [][sevOut'.score >= sevOut.score]_vars

(* five critical classes sum to 125 and are capped *)
C13_Witness ==
    /\ Len(sevIn) = MaxCats
    /\ RawScore(sevIn) > 100
    /\ sevOut.score = 100
    /\ \E i, j \in 1..Len(sevIn) : i # j /\ sevIn[i] = sevIn[j]

(* C14: a list holding at least one class of the critical allowlist        *)
(* (credentials, payment instruments, government IDs, biometrics, auth     *)
(* tokens) is labelled CRITICAL with a score of at least 25.               *)
C14_Original ==
    (\E k \in 1..Len(sevIn) :
        sevIn[k] \in { "Passwords", "Credit cards", "Bank account numbers",
                       "Social security numbers", "Passport numbers",
                       "Government issued IDs", "Biometric data", "Auth tokens" })
    => (sevOut.label = "CRITICAL" /\ sevOut.score >= 25)

(* C15: for a list with no class of the critical allowlist the label is    *)
(* the threshold band of the score (CRITICAL from 25, HIGH from 12 to 24,  *)
(* MEDIUM from 6 to 11, LOW below 6); the empty list gives exactly         *)
(* (LOW, 0, [], 'None').                                                   *)
Band(score) ==
    IF score >= 25 THEN "CRITICAL"
    ELSE IF score >= 12 THEN "HIGH"
    ELSE IF score >= 6 THEN "MEDIUM"
    ELSE "LOW"

C15_LabelIsBandOfScore ==
    /\ (\A k \in 1..Len(sevIn) : sevIn[k] \notin critical_types)
         => sevOut.label = Band(sevOut.score)
    /\ sevIn = << >> =>
         sevOut = [label |-> "LOW", score |-> 0,
                   matched_classes |-> << >>, top_risk |-> "None"]

(* a list that scores exactly 12, the lowest HIGH *)
C15_Witness ==
    /\ sevIn = << "Purchases", "Zodiac signs" >>
    /\ sevOut.score = 12
    /\ sevOut.label = "HIGH"
    /\ sevOut.matched_classes = << "Purchases" >>
    /\ sevOut.top_risk = "Purchases"

(* C16: the two severity scenarios: [Passwords, Email addresses] is scored *)
(* CRITICAL, and [Names, Device information] is scored LOW.                *)
C16_Original ==
    /\ sevIn = << "Passwords", "Email addresses" >> => sevOut.label = "CRITICAL"
    /\ sevIn = << "Names", "Device information" >> => sevOut.label = "LOW"

(* C17: for every breach name, severity label and masked preview the body  *)
(* has at most 160 characters and the length assertion never fails; a      *)
(* truncated name ends in '...', and the boilerplate around the name is    *)
(* kept verbatim.                                                          *)
SmsHead == "[BreachShield] " \o smsIn[2] \o " ALERT: " \o smsIn[3] \o " found in "

SmsTail == " breach. Change your password NOW. Reply STOP to unsubscribe."

C17_Original ==
    LET m == smsOut.message
        inserted == SubSeq(m, Len(SmsHead) + 1, Len(m) - Len(SmsTail))
    IN  /\ ~smsOut.raised
        /\ Len(m) <= 160
        /\ SubSeq(m, 1, Len(SmsHead)) = SmsHead
        /\ SubSeq(m, Len(m) - Len(SmsTail) + 1, Len(m)) = SmsTail
        /\ inserted # smsIn[1] =>
             /\ Len(inserted) >= 3
             /\ SubSeq(inserted, Len(inserted) - 2, Len(inserted)) = "..."

(* the SMS delivery records of an event *)
SmsLogs(id) == {l \in LogsOf(alert_logs, id) : l.channel = "sms"}

(* C18: for a dispatched event the SMS provider is called if and only if   *)
(* the owner gave a phone number and the severity is CRITICAL or HIGH: the *)
(* event of [Passwords, Email addresses] of an owner with a phone number   *)
(* gets its SMS attempt, and without a phone number there is neither an    *)
(* attempt nor an SMS delivery record.                                     *)
C18_Original ==
    \A ev \in events : ev.is_notified =>
        /\ (\E l \in SmsLogs(ev.id) : l.status \in { "sent", "failed" })
             <=> /\ RequestedPhone(ev.monitored_email_id) # NoPhone
                 /\ ev.severity \in { "CRITICAL", "HIGH" }
        /\ RequestedPhone(ev.monitored_email_id) = NoPhone => SmsLogs(ev.id) = {}

(* C19: a dispatched event whose severity is neither CRITICAL nor HIGH and *)
(* whose owner gave a phone number has an SMS delivery record with status  *)
(* 'skipped' carrying the reason 'severity_below_threshold', and no record *)
(* of a provider call.                                                     *)
C19_Original ==
    \A ev \in events :
        ( /\ ev.is_notified
          /\ ev.severity \notin { "CRITICAL", "HIGH" }
          /\ RequestedPhone(ev.monitored_email_id) # NoPhone )
        => /\ \E l \in SmsLogs(ev.id) :
                /\ l.status = "skipped"
                /\ l.error_message = "severity_below_threshold"
           /\ \A l \in SmsLogs(ev.id) : l.status \notin { "sent", "failed" }

(* C20: every dispatch that passed the guard and made its channel attempts *)
(* persists the email record with status and error, and with a phone       *)
(* number given also the SMS record, whether or not the email provider     *)
(* failed.                                                                 *)
C20_Original ==
    [][ \A w \in Workers : (wk[w].pc = "d_send" /\ wk'[w].pc # "d_send") =>
          LET new == LogsOf(alert_logs' \ alert_logs, Job(w).arg)
              owner == (CHOOSE ev \in EventOf(Job(w).arg) : TRUE).monitored_email_id
          IN  /\ \E l \in new : l.channel = "email" /\ l.status \in { "sent", "failed" }
              /\ RequestedPhone(owner) # NoPhone => \E l \in new : l.channel = "sms" ]_vars

(* C21: a failure of a channel provider inside dispatch_alerts is retried   *)
(* by the task, at most DispatchMaxRetries times; a delivery record with   *)
(* status 'failed' is committed only by the execution that has used up the *)
(* retries, and an execution below that bound that met the failure sends   *)
(* its message again.                                                      *)
C21_Original ==
    [][ \A w \in Workers :
          ( /\ wk[w].pc = "d_send"
            /\ \E l \in alert_logs' \ alert_logs : l.status = "failed" )
          => Job(w).retries = DispatchMaxRetries
      ]_vars

(* C22: when the feed answers not-found for an active identity, the client *)
(* returns the empty list and the scan goes on without a failure; it then  *)
(* returns with no BreachEvent created, no alert job enqueued, and the     *)
(* identity's scan_count one above the value the scan read (which is the   *)
(* committed value unless another scan of the identity ended meanwhile).   *)
C22_NotFoundCompletes ==
    [][ \A w \in Workers :
          /\ ( /\ wk[w].pc = "f_get"
               /\ wk'[w] # wk[w]
               /\ client'[w].status = 404 )
             => /\ wk'[w].brs = << >>
                /\ wk'[w].pc = "s_final"
                /\ wk'[w].job = wk[w].job
                /\ UNCHANGED << store, queue, results >>
          /\ ( /\ wk[w].pc = "s_final"
               /\ wk[w].brs = << >>
               /\ wk'[w] # wk[w] )
             => /\ wk'[w] = Idle
                /\ Outcome(Job(w), "returned") \in results'
                /\ wk[w].count = 0
                /\ UNCHANGED << events, nextEventId, queue >>
                /\ mails'[Mail(w)].scan_count = wk[w].snap + 1
                /\ wk[w].snap = mails[Mail(w)].scan_count =>
                     mails'[Mail(w)].scan_count = mails[Mail(w)].scan_count + 1
      ]_vars

(* the scan of the identity the feed does not know has returned *)
C22_Witness ==
    /\ QuietMail \in done
    /\ mails[QuietMail].scan_count = 1
    /\ \E w \in Workers : client[w].status = 404
    /\ \A ev \in events : ev.monitored_email_id # QuietMail
    /\ \A j \in BagToSet(queue) : j.task = "dispatch" =>
         \E ev \in events : ev.id = j.arg /\ ev.monitored_email_id # QuietMail

(* C23: a scan that begins on a missing or inactive identity is a no-op:   *)
(* the task returns, with nothing created, at its guard; no request goes   *)
(* to the feed, no row of the store changes (scan_count and                *)
(* last_scanned_at included) and no message is enqueued.  So no event is   *)
(* added for an identity by a scan that starts after its deactivation.     *)
C23_ScanOfInactiveIsNoOp ==
    [][ \A j \in BagToSet(queue) :
          ( /\ j.task = "scan"
            /\ CopiesIn(j, queue') < CopiesIn(j, queue)
            /\ (j.arg \notin DOMAIN mails \/ ~mails[j.arg].is_active) )
          => /\ UNCHANGED << store, requests, client >>
             /\ queue' = queue (-) SetToBag({j})
             /\ \A w \in Workers :
                  wk'[w] # wk[w] => wk[w].pc = "idle" /\ wk'[w] = Idle
             /\ Outcome(j, "returned") \in results'
      ]_vars

(* both cases: the first identity was deactivated after the sweep had      *)
(* enqueued its scan, and the scan has returned at the guard and left the  *)
(* identity as it was, while the feed has breaches for it; and the scan    *)
(* that POST /emails sent for a new identity was taken before the commit   *)
(* of the request, found no row and returned at the guard as well          *)
C23_Witness ==
    /\ 1 \in skipped
    /\ ~mails[1].is_active
    /\ mails[1].scan_count = 0
    /\ mails[1].last_scanned_at = NoTime
    /\ QuietMail \in skipped
    /\ QuietMail \notin DOMAIN mails
    /\ route.pc = "a_commit" /\ route.arg = QuietMail
    /\ Outcome(Msg("scan", QuietMail, 0), "returned") \in results
    /\ \A ev \in events : ev.monitored_email_id \notin {1, QuietMail}
    /\ \A j \in BagToSet(queue) : j.task # "scan"
    /\ \A w \in Workers : wk[w].pc = "idle"

(* C24: any two requests sent to the breach feed, by the same scan or by   *)
(* scans running at the same time, are at least the configured minimum     *)
(* interval apart.                                                         *)
C24_Original ==
    \A i, j \in 1..Len(requests) :
        i < j => requests[j] - requests[i] >= RateLimit

(* C25: a first rate-limited answer makes the client cool down and send    *)
(* exactly one more request; a second rate-limited answer is a failure;    *)
(* an unauthorized answer is a fatal error that the ingestion worker does  *)
(* not retry: the scan ends and its message is not sent again.             *)
C25_Original ==
    [][ \A w \in Workers :
          (wk[w].pc = "f_get" /\ wk'[w] # wk[w]) =>
             /\ client'[w].tries <= 2
             /\ (client'[w].status = 429 /\ client[w].tries = 0) =>
                  /\ wk'[w].pc = "f_wait"
                  /\ client'[w].wake = now + Cooldown
             /\ (client'[w].status = 429 /\ client[w].tries = 1) =>
                  /\ wk'[w] = Idle
                  /\ Outcome(Job(w), "returned") \notin results' \ results
             /\ client'[w].status = 401 =>
                  /\ wk'[w] = Idle
                  /\ queue' = queue
      ]_vars

-----------------------------------------------------------------------------
(* send_weekly_summaries.  No operation changes an account, and all are    *)
(* active.                                                                 *)

ActiveUsers == {1, 2, 3}

(* user.monitored_emails: the relationship has no filter on is_active *)
monitored_emails(u) == {m \in DOMAIN mails : Owner(m) = u}

(* account.breach_events over the accounts of the user, as committed *)
breach_events(u) == {ev \in events : ev.monitored_email_id \in monitored_emails(u)}

highest_score(evs) ==
    IF evs = {} THEN 0
    ELSE CHOOSE s \in {ev.severity_score : ev \in evs} :
             \A ev \in evs : ev.severity_score <= s

summary_stats(u, seven_days_ago) ==
    [total_monitored |-> Cardinality(monitored_emails(u)),
     total_breaches |-> Cardinality(breach_events(u)),
     new_this_week |-> Cardinality({ev \in breach_events(u) :
                                      ev.detected_at >= seven_days_ago}),
     risk_score |-> highest_score(breach_events(u))]

(* the orders in which the query without ORDER BY may list the users *)
Listings(us) ==
    {s \in [1..Cardinality(us) -> us] : \A i, j \in DOMAIN s : s[i] = s[j] => i = j}

(* celery beat: send-weekly-summary-monday; the task queries the active     *)
(* users and takes seven_days_ago = utcnow() - timedelta(days=7)           *)
WBegin ==
    /\ budget.digests > 0
    /\ digest.pc = "idle"
    /\ \E list \in Listings(ActiveUsers) :
         digest' = [pc |-> "loop", todo |-> list, since |-> now - Week,
                    notified |-> 0, status |-> "running"]
    /\ budget' = [budget EXCEPT !.digests = @ - 1]
    /\ UNCHANGED << store, queue, wk, hist, calls, feedside, summaries, route >>

(* One turn of the loop over the users.  A user without identities is      *)
(* passed over.  send_weekly_summary catches a failure of the provider and *)
(* answers "failed", which the loop does not look at; any other exception, *)
(* such as a failing load of user.monitored_emails, leaves the loop for    *)
(* the one except branch around it, which returns.                         *)
WUser ==
    /\ digest.pc = "loop"
    /\ digest.todo # << >>
    /\ \E fault \in {"none", "send", "load"} :
         LET user == Head(digest.todo)
             stats == summary_stats(user, digest.since)
         IN
         /\ fault # "none" => budget.drops > 0
         /\ budget' = IF fault # "none" THEN [budget EXCEPT !.drops = @ - 1]
                      ELSE budget
         /\ IF fault = "load"
            THEN /\ digest' = [digest EXCEPT !.pc = "done", !.status = "failed"]
                 /\ UNCHANGED summaries
            ELSE IF stats.total_monitored = 0
            THEN /\ fault = "none"
                 /\ digest' = [digest EXCEPT !.todo = Tail(@)]
                 /\ UNCHANGED summaries
            ELSE /\ summaries' = summaries \cup
                       {[user |-> user, stats |-> stats,
                         status |-> IF fault = "send" THEN "failed" ELSE "sent"]}
                 /\ digest' = [digest EXCEPT !.todo = Tail(@),
                                             !.notified = @ + 1]
    /\ UNCHANGED << store, queue, wk, hist, calls, feedside, route >>

(* return {"users_notified": total_users_notified} *)
WEnd ==
    /\ digest.pc = "loop"
    /\ digest.todo = << >>
    /\ digest' = [digest EXCEPT !.pc = "done", !.status = "returned"]
    /\ UNCHANGED << store, queue, wk, hist, budget, calls, feedside, summaries,
                    route >>

(* more than seven days go by *)
WeekPasses ==
    /\ budget.weeks > 0
    /\ budget' = [budget EXCEPT !.weeks = @ - 1]
    /\ now' = now + Week + 1
    /\ UNCHANGED << store, queue, wk, hist, calls, client, requests, weekly, route >>

InitDigest ==
    /\ InitStore
    /\ budget = [Nothing EXCEPT !.sweeps = MaxSweeps, !.digests = MaxDigests,
                                !.weeks = MaxWeeks, !.drops = MaxDrops]

NextDigest ==
    \/ Beat
    \/ \E w \in Workers : Work(w)
    \/ WBegin
    \/ WUser
    \/ WEnd
    \/ WeekPasses

SpecDigest == InitDigest /\ [][NextDigest]_vars

(* C26: when send_weekly_summaries has ended, every active user who has an *)
(* identity has been sent a summary, whatever failed for another user      *)
C26_Original ==
    digest.pc = "done" =>
        \A u \in ActiveUsers :
            monitored_emails(u) # {} => \E s \in summaries : s.user = u

(* the part of C26 that the code keeps: a summary carries the lifetime     *)
(* count, the count of the last seven days and the highest score of the    *)
(* user's identities, and a failing provider does not stop the loop        *)
C26_SendFailureIsolated ==
    [][ (digest.pc = "loop" /\ summaries' # summaries) =>
          /\ digest'.pc = "loop"
          /\ digest'.todo = Tail(digest.todo)
          /\ \E s \in summaries' \ summaries :
               /\ s.user = Head(digest.todo)
               /\ s.stats.total_breaches =
                    Cardinality({ev \in events : Owner(ev.monitored_email_id) = s.user})
               /\ s.stats.new_this_week <= s.stats.total_breaches
               /\ \A ev \in events :
                    Owner(ev.monitored_email_id) = s.user
                      => ev.severity_score <= s.stats.risk_score ]_vars

-----------------------------------------------------------------------------
(* The API routes that write to delivery records and breach events         *)

(* the text the collaborator gives to a request of the API *)
RegeneratedText == "advice given to the API"

(* DELETE /alerts/{alert_id}: the row is looked up through its event and   *)
(* identity for the current user, deleted and the deletion committed; 404  *)
(* without such a row                                                      *)
delete_alert_log(alert_id) ==
    /\ budget.deletes > 0
    /\ \E log \in alert_logs :
         /\ log.id = alert_id
         /\ \E ev \in events :
              /\ ev.id = log.breach_event_id
              /\ Owner(ev.monitored_email_id) = CurrentUser
         /\ alert_logs' = alert_logs \ {log}
    /\ budget' = [budget EXCEPT !.deletes = @ - 1]
    /\ UNCHANGED << mails, events, cache, nextEventId, nextLogId, nextCacheId,
                    queue, wk, hist, harness >>

(* POST /breaches/{breach_id}/regenerate-remediation, statement by         *)
(* statement: the request commits three times and waits for the            *)
(* collaborator in between, and the workers go on meanwhile.               *)

(* the BreachEvent of the request and its cache key *)
RouteKey ==
    LET breach == CHOOSE ev \in events : ev.id = route.arg
    IN  BuildCacheKey(breach.breach_name, breach.data_classes)

(* The event is looked up for the current user (404 without it), the cache *)
(* entry of its key is deleted and the deletion committed                  *)
regenerate_remediation(breach_id) ==
    /\ budget.regens > 0
    /\ route.pc = "idle"
    /\ \E breach \in events :
         /\ breach.id = breach_id
         /\ Owner(breach.monitored_email_id) = CurrentUser
         /\ cache' = cache \ CacheRow(BuildCacheKey(breach.breach_name,
                                                    breach.data_classes))
    /\ route' = [NoRoute EXCEPT !.pc = "r_lookup", !.arg = breach_id]
    /\ budget' = [budget EXCEPT !.regens = @ - 1]
    /\ UNCHANGED << mails, events, alert_logs, nextEventId, nextLogId,
                    nextCacheId, queue, wk, hist, calls, feedside, weekly >>

(* generate_remediation, the cache query: a row is a hit (a worker may     *)
(* have stored one since the deletion), no row or a raising query goes on  *)
(* to the collaborator                                                     *)
RLookup ==
    /\ route.pc = "r_lookup"
    /\ \E fault \in BOOLEAN :
         IF fault
         THEN /\ budget.drops > 0
              /\ budget' = [budget EXCEPT !.drops = @ - 1]
              /\ route' = [route EXCEPT !.pc = "r_gen"]
         ELSE /\ UNCHANGED budget
              /\ IF CacheRow(RouteKey) = {}
                 THEN route' = [route EXCEPT !.pc = "r_gen"]
                 ELSE \E r \in CacheRow(RouteKey) :
                        route' = [route EXCEPT !.pc = "r_hit", !.rid = r.id,
                                               !.hit = r.hit_count]
    /\ UNCHANGED << store, queue, wk, hist, calls, feedside, weekly >>

(* the hit: hit_count += 1 and commit; a raising commit goes on to the     *)
(* collaborator with a broken session                                      *)
RHit ==
    /\ route.pc = "r_hit"
    /\ \E fault \in BOOLEAN :
         IF fault \/ ~\E r \in cache : r.id = route.rid
         THEN /\ fault => budget.drops > 0
              /\ budget' = IF fault THEN [budget EXCEPT !.drops = @ - 1]
                           ELSE budget
              /\ route' = [route EXCEPT !.pc = "r_gen", !.dead = TRUE]
              /\ UNCHANGED cache
         ELSE /\ \E r \in cache :
                   /\ r.id = route.rid
                   /\ cache' = (cache \ {r}) \cup
                                  {[r EXCEPT !.hit_count = route.hit + 1]}
                   /\ route' = [route EXCEPT !.pc = "r_read"]
              /\ UNCHANGED budget
    /\ UNCHANGED << mails, events, alert_logs, nextEventId, nextLogId,
                    nextCacheId, queue, wk, hist, calls, feedside, weekly >>

(* after the commit of the hit: the read of the expired row, whose text is *)
(* the answer; a raising read goes on to the collaborator with a session   *)
(* that works                                                              *)
RRead ==
    /\ route.pc = "r_read"
    /\ \E fault \in BOOLEAN :
         IF fault \/ ~\E r \in cache : r.id = route.rid
         THEN /\ fault => budget.drops > 0
              /\ budget' = IF fault THEN [budget EXCEPT !.drops = @ - 1]
                           ELSE budget
              /\ route' = [route EXCEPT !.pc = "r_gen"]
         ELSE /\ \E r \in cache :
                   /\ r.id = route.rid
                   /\ route' = [route EXCEPT !.pc = "r_write",
                                             !.text = r.remediation_text]
              /\ UNCHANGED budget
    /\ UNCHANGED << store, queue, wk, hist, calls, feedside, weekly >>

(* the miss: client.messages.create, on an error the fallback text; with a *)
(* text, the attempt to save it to the cache, which fails on a row of the  *)
(* same key, on an error of the store or on a broken session and is then   *)
(* rolled back: the text is the answer all the same                        *)
RGen ==
    /\ route.pc = "r_gen"
    /\ \E fault \in {"none", "llm", "store"} :
         /\ fault # "none" => budget.drops > 0
         /\ budget' = IF fault # "none" THEN [budget EXCEPT !.drops = @ - 1]
                      ELSE budget
         /\ IF fault = "llm"
            THEN /\ route' = [route EXCEPT !.pc = "r_write", !.text = Fallback]
                 /\ UNCHANGED << cache, nextCacheId >>
            ELSE /\ route' = [route EXCEPT !.pc = "r_write", !.dead = FALSE,
                                           !.text = RegeneratedText]
                 /\ IF fault = "store" \/ CacheRow(RouteKey) # {} \/ route.dead
                    THEN UNCHANGED << cache, nextCacheId >>
                    ELSE LET breach == CHOOSE ev \in events : ev.id = route.arg IN
                         /\ cache' = cache \cup
                              {[id |-> nextCacheId, cache_key |-> RouteKey,
                                breach_name |-> breach.breach_name,
                                remediation_text |-> RegeneratedText,
                                hit_count |-> 1]}
                         /\ nextCacheId' = nextCacheId + 1
    /\ UNCHANGED << mails, events, alert_logs, nextEventId, nextLogId, queue,
                    wk, hist, calls, feedside, weekly >>

(* breach.remediation_text = fresh_remediation; db.commit(), which raises  *)
(* on a broken session: the request fails and the event stays              *)
RWrite ==
    /\ route.pc = "r_write"
    /\ events' = {IF ev.id = route.arg /\ ~route.dead
                  THEN [ev EXCEPT !.remediation_text = route.text]
                  ELSE ev : ev \in events}
    /\ route' = NoRoute
    /\ UNCHANGED << mails, cache, alert_logs, nextEventId, nextLogId,
                    nextCacheId, queue, wk, hist, budget, calls, feedside,
                    weekly >>

InitApi ==
    /\ InitStore
    /\ budget = [Nothing EXCEPT !.sweeps = MaxSweeps, !.deletes = MaxDeletes,
                                !.regens = MaxRegens, !.drops = MaxDrops]

NextApi ==
    \/ Beat
    \/ \E w \in Workers : Work(w)
    \/ \E id \in 1..(nextLogId - 1) : delete_alert_log(id)
    \/ \E id \in 1..(nextEventId - 1) : regenerate_remediation(id)
    \/ RLookup
    \/ RHit
    \/ RRead
    \/ RGen
    \/ RWrite

SpecApi == InitApi /\ [][NextApi]_vars

(* C27: delivery records are append-only: no step modifies or deletes a    *)
(* committed AlertLog row, so the set of delivery records only grows       *)
C27_Original == [][ alert_logs \subseteq alert_logs' ]_vars

(* C28: a committed BreachEvent is never deleted and keeps its name,       *)
(* categories, severity, score and remediation_text; only is_notified and  *)
(* notified_at change, and only in dispatch_alerts                         *)
C28_Original ==
    [][ \A ev \in events :
          /\ \E nv \in events' :
               /\ nv.id = ev.id
               /\ nv.monitored_email_id = ev.monitored_email_id
               /\ nv.breach_name = ev.breach_name
               /\ nv.data_classes = ev.data_classes
               /\ nv.severity = ev.severity
               /\ nv.severity_score = ev.severity_score
               /\ nv.remediation_text = ev.remediation_text
          /\ ev \notin events' =>
               \E w \in Workers : wk[w].pc = "d_send" /\ Job(w).arg = ev.id ]_vars

(* the part of C28 that the code keeps in the pipeline: without the API,   *)
(* an event keeps everything but its notification fields                   *)
C28_PipelineKeepsEvent ==
    [][ (\E w \in Workers : wk'[w] # wk[w]) =>
          \A ev \in events :
             \E nv \in events' :
                [nv EXCEPT !.is_notified = ev.is_notified,
                           !.notified_at = ev.notified_at] = ev ]_vars

-----------------------------------------------------------------------------
(* The pipeline with responsive collaborators and fairly scheduled         *)
(* workers: one sweep, no failure of any collaborator, no manual resend    *)

InitCalm ==
    /\ InitStore
    /\ budget = [Nothing EXCEPT !.sweeps = MaxSweeps]

CalmSpec ==
    InitCalm /\ [][NextPipeline]_vars /\ \A w \in Workers : WF_vars(Work(w))

(* a dispatch message was taken and ended at the guard while its event was *)
(* not yet committed: no later message refers to the event                 *)
Orphaned(id) ==
    /\ \E ev \in events : ev.id = id /\ ~ev.is_notified
    /\ \A j \in BagToSet(queue) \cup Running : ~(j.task = "dispatch" /\ j.arg = id)

(* C29: with fair workers and responsive collaborators every BreachEvent   *)
(* that a successful process_single_email committed is eventually marked   *)
(* notified, without a manual resend                                       *)
C29_Original == <>[](\A id \in counted : Notified(events, id))

(* C29, as the state it excludes: a committed event of a successful scan   *)
(* with no dispatch message left for it                                    *)
C29_NoOrphan == \A id \in counted : ~Orphaned(id)

-----------------------------------------------------------------------------
(* the step in which process_single_email of worker w commits and returns  *)
(* {"email_id": ..., "new_breaches": count}                                *)
ReturnsSuccess(w) ==
    /\ wk[w].pc = "s_final"
    /\ wk'[w] = Idle
    /\ mails' # mails

(* C30: when process_single_email returns success with new_breaches = n,   *)
(* exactly n BreachEvents it created are committed, and every dispatch     *)
(* message it sent refers to a committed BreachEvent, also after a         *)
(* cache-store conflict in generate_remediation between two breaches       *)
C30_Original ==
    [][ \A w \in Workers :
          ReturnsSuccess(w) =>
             /\ Cardinality({ev \in events' : ev.id \in wk[w].created}) = wk[w].count
             /\ \A id \in wk[w].created : \E ev \in events' : ev.id = id ]_vars

=============================================================================
